---- MODULE Spec2Model ----
(***************************************************************************)
(* The Vorbis decoder adapter of src/src/decoder.rs (struct Dec and its    *)
(* Decoder implementation) as a state machine.                             *)
(*                                                                         *)
(* Option<T> is a sequence of length 0 (None) or 1 (Some).  A byte buffer  *)
(* is a sequence of numbers in 0..255.  A call that panics (an unwrap of   *)
(* None, a slice index out of range) ends the behaviour: ret = "Panic" and *)
(* no further operation is possible.                                       *)
(*                                                                         *)
(* The decoding engine (lewton) and the frame types (av-data) are external *)
(* to the repository.  The engine is modelled as a deterministic function  *)
(* of the bytes it is given, on a scaled-down header format; a packet      *)
(* payload is modelled by what the engine makes of it.                     *)
(***************************************************************************)
EXTENDS Integers, Sequences, FiniteSets, TLC

\* ---------------------------------------------------------------- bounds

\* Longest extradata buffer explored exhaustively (SpecConfigure).
MaxExtraLen == 7

\* Largest per-channel sample count of one packet.
MaxSamples == 2

\* Most packets submitted in one behaviour.
MaxPackets == 2

\* Longest cursor handed to the lacing reader on its own (SpecLacing).
MaxLacingLen == 3

\* ------------------------------------------------------------- constants

\* Matroska framing marker, first byte of the extradata.
XiphMarker == 2

\* A lacing byte below this value ends the length field.
LacingMax == 255

\* Placeholder sample rate of a new decoder.
DefaultSampleRate == 48000

\* ---------------------------------------------------------------- values

None == <<>>

Some(x) == <<x>>

IsSome(o) == Len(o) = 1

Unwrap(o) == o[1]

\* The byte values explored: the marker, small lengths and header fields,
\* and the lacing continuation byte.
Bytes == {0, 1, 2, 255}

\* Every byte buffer of at most n bytes.
Buffers(n) == UNION {[1..k -> Bytes] : k \in 0..n}

\* arr[from..], from counted from 0 as in the source.
SliceFrom(arr, from) == SubSeq(arr, from + 1, Len(arr))

\* arr[0..to]
SliceTo(arr, to) == SubSeq(arr, 1, to)

\* ------------------------------------------------- the lacing reader

\* A mutant of lacing_loop: the byte that ends the field is not added.
RECURSIVE lacing_loop_drops_last(_, _)
lacing_loop_drops_last(arr, r) ==
    IF Len(arr) = 0
    THEN [err |-> TRUE, r |-> 0, arr |-> arr]
    ELSE IF arr[1] < 255
         THEN [err |-> FALSE, r |-> r, arr |-> SubSeq(arr, 2, Len(arr))]
         ELSE lacing_loop_drops_last(SubSeq(arr, 2, Len(arr)), r + arr[1])

\* A mutant of lacing_loop: the end of the buffer ends the field.
RECURSIVE lacing_loop_ends_at_end(_, _)
lacing_loop_ends_at_end(arr, r) ==
    IF Len(arr) = 0
    THEN [err |-> FALSE, r |-> r, arr |-> arr]
    ELSE IF arr[1] < 255
         THEN [err |-> FALSE, r |-> r + arr[1], arr |-> SubSeq(arr, 2, Len(arr))]
         ELSE lacing_loop_ends_at_end(SubSeq(arr, 2, Len(arr)), r + arr[1])

\* A mutant of lacing_loop: the cursor is left on the byte that ends the field.
RECURSIVE lacing_loop_keeps_last(_, _)
lacing_loop_keeps_last(arr, r) ==
    IF Len(arr) = 0
    THEN [err |-> TRUE, r |-> 0, arr |-> arr]
    ELSE IF arr[1] < 255
         THEN [err |-> FALSE, r |-> r + arr[1], arr |-> arr]
         ELSE lacing_loop_keeps_last(SubSeq(arr, 2, Len(arr)), r + arr[1])

\* read_xiph_lacing: sums bytes until one is below 255; arr is the cursor.
\* Returns err, or the value r and the cursor advanced past the field.
\* (r is a u64 in the source; a buffer this short cannot overflow it.)
RECURSIVE lacing_loop(_, _)
lacing_loop(arr, r) ==
    IF Len(arr) = 0
    THEN [err |-> TRUE, r |-> 0, arr |-> arr]
    ELSE LET v == arr[1]
             rest == SliceFrom(arr, 1)
         IN IF v < LacingMax
            THEN [err |-> FALSE, r |-> r + v, arr |-> rest]
            ELSE lacing_loop(rest, r + v)

read_xiph_lacing(arr) == lacing_loop(arr, 0)

\* ------------------------------------------- the engine: header parsers

\* lewton::header::read_header_ident on a scaled-down identification
\* header: byte 0 declares the channel count (not 0), byte 1 the sample
\* rate.  raw keeps the bytes the header was parsed from.
read_header_ident(b) ==
    IF Len(b) >= 2 /\ b[1] # 0
    THEN [err |-> FALSE,
          hdr |-> [audio_channels |-> b[1], audio_sample_rate |-> b[2], raw |-> b]]
    ELSE [err |-> TRUE, hdr |-> <<>>]

\* lewton::header::read_header_comment: accepts a non-empty header whose
\* first byte is not 0.
read_header_comment(b) ==
    IF Len(b) >= 1 /\ b[1] # 0
    THEN [err |-> FALSE, hdr |-> [raw |-> b]]
    ELSE [err |-> TRUE, hdr |-> <<>>]

\* lewton::header::read_header_setup, parametrized by the channel count of
\* the identification header: accepts a non-empty header whose first byte
\* is not 0.
read_header_setup(b, audio_channels) ==
    IF Len(b) >= 1 /\ b[1] # 0
    THEN [err |-> FALSE, hdr |-> [raw |-> b, audio_channels |-> audio_channels]]
    ELSE [err |-> TRUE, hdr |-> <<>>]

\* ChannelMap::new(): no channels.
new_map == <<>>

\* ChannelMap::default_map(count): the default layout of count channels.
default_map(count) == [c \in 1..count |-> c]

\* ---------------------------------------------- configure, as a function

\* A mutant of starts_with_marker: only the emptiness of the buffer is checked.
marker_unchecked(buf) == Len(buf) # 0

\* The marker test of Dec::configure, negated: the buffer is not empty and
\* starts with a 2.
starts_with_marker(buf) == Len(buf) # 0 /\ buf[1] = XiphMarker

\* Dec::configure once the extradata is known to be present: the result, and
\* on success the three parsed headers.  A slice whose end lies past the end
\* of the buffer panics.
parse_extradata(buf) ==
    LET fail(r) == [ret |-> r, headers |-> None] IN
    IF ~starts_with_marker(buf) THEN fail("InvalidData")
    ELSE LET l1 == read_xiph_lacing(SliceFrom(buf, 1)) IN
    IF l1.err THEN fail("InvalidData")
    ELSE LET l2 == read_xiph_lacing(l1.arr) IN
    IF l2.err THEN fail("InvalidData")
    ELSE LET ident_len == l1.r
             comment_len == l2.r
             e0 == l2.arr
         IN
    IF ident_len > Len(e0) THEN fail("Panic")
    ELSE LET ident == read_header_ident(SliceTo(e0, ident_len))
             e1 == SliceFrom(e0, ident_len)
         IN
    IF ident.err THEN fail("InvalidData")
    ELSE IF comment_len > Len(e1) THEN fail("Panic")
    ELSE LET comment == read_header_comment(SliceTo(e1, comment_len))
             e2 == SliceFrom(e1, comment_len)
         IN
    IF comment.err THEN fail("InvalidData")
    ELSE LET setup == read_header_setup(e2, ident.hdr.audio_channels) IN
    IF setup.err THEN fail("InvalidData")
    ELSE [ret |-> "Ok", headers |-> Some(<<ident.hdr, comment.hdr, setup.hdr>>)]

\* A mutant of configure_outcome: missing extradata is read as an empty buffer.
configure_outcome_none_as_empty(stored) ==
    parse_extradata(IF IsSome(stored) THEN Unwrap(stored) ELSE <<>>)

\* The outcome of Dec::configure on the stored extradata.
configure_outcome(stored) ==
    IF ~IsSome(stored)
    THEN [ret |-> "ConfigurationIncomplete", headers |-> None]
    ELSE parse_extradata(Unwrap(stored))

\* ------------------------------------------- the engine: packet decoding

\* PreviousWindowRight::new(): no previous window.
new_pwr == None

\* What the engine makes of a payload: "malformed" (no sample count can be
\* determined), "undecodable" (a count, but the decode fails) or "audio";
\* n is the per-channel sample count of its block, short or long.
Payloads ==
    {[kind |-> "malformed", n |-> 0]}
    \cup {[kind |-> k, n |-> n] : k \in {"undecodable", "audio"}, n \in {1, MaxSamples}}

\* lewton::audio::get_decoded_sample_count
get_decoded_sample_count(ident, setup, data) ==
    IF data.kind = "malformed"
    THEN [err |-> TRUE, n |-> 0]
    ELSE [err |-> FALSE, n |-> data.n]

\* The decoded sample i of channel cn (both from 1): distinct over the block
\* and never 0, so that every slot of the frame tells where it came from.
sample_value(data, cn, i) ==
    1 + (cn - 1) * data.n + (i - 1)

\* lewton::audio::read_audio_packet: one buffer per channel, all of the same
\* length, and the continuity state it leaves (the window of the block just
\* decoded).  The first packet after a fresh continuity state only primes the
\* overlap and yields no samples.
read_audio_packet(ident, setup, data, pwr) ==
    IF data.kind # "audio"
    THEN [err |-> TRUE, samples |-> <<>>, pwr |-> pwr]
    ELSE LET m == IF pwr = new_pwr THEN 0 ELSE data.n IN
         [err |-> FALSE,
          samples |-> [cn \in 1..ident.audio_channels |->
                          [i \in 1..m |-> sample_value(data, cn, i)]],
          pwr |-> Some(data.n)]

\* Frame::new_default_frame(info, Some(t)): a zeroed buffer of info.samples
\* entries.
new_default_frame(info, t) ==
    [info |-> info, t |-> t, buf |-> [k \in 1..info.samples |-> 0]]

\* --------------------------------------------------------- interleaving

\* A mutant of dest_index: sample index and channel index swapped.
dest_index_swapped(i, cn, channel_count) == cn * channel_count + i

\* The destination slot of sample i of channel cn (both from 0).
dest_index(i, cn, channel_count) == i * channel_count + cn

\* The loop of send_packet: for i in 0..sample_count, for (cn, chan) in
\* samples: buf[i * channel_count + cn] = chan[i].  k counts the iterations
\* done; writes counts the stores into each slot; an index past the end of
\* buf or of a channel panics.
RECURSIVE interleave_loop(_, _, _, _, _)
interleave_loop(st, samples, channel_count, sample_count, k) ==
    IF st.panic \/ k >= sample_count * Len(samples)
    THEN st
    ELSE LET i == k \div Len(samples)
             cn == k % Len(samples)
             d == dest_index(i, cn, channel_count)
         IN IF d >= Len(st.buf) \/ d < 0 \/ i >= Len(samples[cn + 1])
            THEN [st EXCEPT !.panic = TRUE]
            ELSE interleave_loop(
                     [st EXCEPT !.buf[d + 1] = samples[cn + 1][i + 1],
                                !.writes[d + 1] = @ + 1],
                     samples, channel_count, sample_count, k + 1)

interleave(buf, samples, channel_count) ==
    IF Len(samples) = 0
    THEN [buf |-> buf, writes |-> [k \in 1..Len(buf) |-> 0], panic |-> TRUE]
    ELSE interleave_loop(
             [buf |-> buf, writes |-> [k \in 1..Len(buf) |-> 0], panic |-> FALSE],
             samples, channel_count, Len(samples[1]), 0)

\* ------------------------------------------------------------- the state

VARIABLES
    extradata,  \* Dec.extradata: Option<Vec<u8>>
    headers,    \* Dec.headers: Option<(ident, comment, setup)>
    pwr,        \* Dec.pwr: the continuity state
    pending,    \* Dec.pending: the queue of decoded frames, oldest first
    info,       \* Dec.info: the stream info
    op,         \* the last operation called
    ret,        \* what it returned ("Panic" when it did not return)
    out,        \* the frame the last receive_frame returned, if any
    pkt,        \* the packet given to the last send_packet, if any
    sent,       \* timestamps of the packets send_packet accepted, in order
    received,   \* timestamps of the frames receive_frame returned, in order
    calls,      \* the engine functions the last operation called, in order
    repeated,   \* the last two operations were both configure
    other,      \* a second decoder, made by another create() and left alone
    lacing      \* a cursor handed to read_xiph_lacing, and what it returned

dec == <<extradata, headers, pwr, pending, info>>

vars == <<extradata, headers, pwr, pending, info, op, ret, out, pkt, sent, received,
          calls, repeated, other, lacing>>

\* A mutant of new: another placeholder sample rate.
new_rate_44100 ==
    [extradata |-> None,
     headers |-> None,
     pwr |-> new_pwr,
     pending |-> <<>>,
     info |-> [samples |-> 0,
               sample_rate |-> 44100,
               map |-> new_map,
               format |-> "S16",
               block_len |-> None]]

\* Dec::new
new ==
    [extradata |-> None,
     headers |-> None,
     pwr |-> new_pwr,
     pending |-> <<>>,
     info |-> [samples |-> 0,
               sample_rate |-> DefaultSampleRate,
               map |-> new_map,
               format |-> "S16",
               block_len |-> None]]

\* No cursor is being read.
no_lacing == [input |-> <<>>, reads |-> <<>>]

\* Des::create
Init ==
    /\ extradata = new.extradata
    /\ headers = new.headers
    /\ pwr = new.pwr
    /\ pending = new.pending
    /\ info = new.info
    /\ op = "create"
    /\ ret = "Ok"
    /\ out = None
    /\ pkt = None
    /\ sent = <<>>
    /\ received = <<>>
    /\ calls = <<>>
    /\ repeated = FALSE
    /\ other = new
    /\ lacing = no_lacing

\* A call that panicked did not return: nothing is called after it.
Alive == ret # "Panic"

\* -------------------------------------------------------- the operations

\* A mutant of set_extradata: new extradata drops the header set.
set_extradata_clears_headers(extra) ==
    /\ Alive
    /\ extradata' = Some(extra)
    /\ headers' = None
    /\ op' = "set_extradata"
    /\ ret' = "Ok"
    /\ out' = None
    /\ pkt' = None
    /\ calls' = <<>>
    /\ repeated' = FALSE
    /\ UNCHANGED <<pwr, pending, info, sent, received, other, lacing>>

\* Dec::set_extradata
set_extradata(extra) ==
    /\ Alive
    /\ extradata' = Some(extra)
    /\ op' = "set_extradata"
    /\ ret' = "Ok"
    /\ out' = None
    /\ pkt' = None
    /\ calls' = <<>>
    /\ repeated' = FALSE
    /\ UNCHANGED <<headers, pwr, pending, info, sent, received, other, lacing>>

\* A mutant of configured_info: the sample rate is left as it was.
configured_info_keep_rate(old, ident) ==
    [old EXCEPT !.map = default_map(ident.audio_channels)]

\* The stream info after a successful configure.
configured_info(old, ident) ==
    [old EXCEPT !.sample_rate = ident.audio_sample_rate,
                !.map = default_map(ident.audio_channels)]

\* A mutant of configure: a successful configure empties the queue.
configure_clears_pending ==
    /\ Alive
    /\ LET res == configure_outcome(extradata) IN
       /\ ret' = res.ret
       /\ IF res.ret = "Ok"
          THEN /\ info' = configured_info(info, Unwrap(res.headers)[1])
               /\ headers' = res.headers
               /\ pending' = <<>>
          ELSE UNCHANGED <<info, headers, pending>>
    /\ op' = "configure"
    /\ out' = None
    /\ pkt' = None
    /\ calls' = <<>>
    /\ repeated' = (op = "configure")
    /\ UNCHANGED <<extradata, pwr, sent, received, other, lacing>>

\* The identification header of a stored extradata, when configure gets as
\* far as parsing it.
early_ident(stored) ==
    LET none == [err |-> TRUE, hdr |-> <<>>] IN
    IF ~IsSome(stored) THEN none
    ELSE IF ~starts_with_marker(Unwrap(stored)) THEN none
    ELSE LET l1 == read_xiph_lacing(SliceFrom(Unwrap(stored), 1)) IN
    IF l1.err THEN none
    ELSE LET l2 == read_xiph_lacing(l1.arr) IN
    IF l2.err \/ l1.r > Len(l2.arr) THEN none
    ELSE read_header_ident(SliceTo(l2.arr, l1.r))

\* A mutant of configure: the stream info is updated as soon as the
\* identification header is parsed, before the other two headers.
configure_info_early ==
    /\ Alive
    /\ LET res == configure_outcome(extradata)
           id == early_ident(extradata)
       IN
       /\ ret' = res.ret
       /\ IF res.ret = "Ok"
          THEN /\ info' = configured_info(info, Unwrap(res.headers)[1])
               /\ headers' = res.headers
          ELSE IF ~id.err
          THEN /\ info' = configured_info(info, id.hdr)
               /\ UNCHANGED headers
          ELSE UNCHANGED <<info, headers>>
    /\ op' = "configure"
    /\ out' = None
    /\ pkt' = None
    /\ calls' = <<>>
    /\ repeated' = (op = "configure")
    /\ UNCHANGED <<extradata, pwr, pending, sent, received, other, lacing>>

\* A mutant of configure: the stored extradata is taken out of the decoder.
configure_takes_extradata ==
    /\ Alive
    /\ LET res == configure_outcome(extradata) IN
       /\ ret' = res.ret
       /\ IF res.ret = "Ok"
          THEN /\ info' = configured_info(info, Unwrap(res.headers)[1])
               /\ headers' = res.headers
          ELSE UNCHANGED <<info, headers>>
    /\ extradata' = None
    /\ op' = "configure"
    /\ out' = None
    /\ pkt' = None
    /\ calls' = <<>>
    /\ repeated' = (op = "configure")
    /\ UNCHANGED <<pwr, pending, sent, received, other, lacing>>

\* Dec::configure
configure ==
    /\ Alive
    /\ LET res == configure_outcome(extradata) IN
       /\ ret' = res.ret
       /\ IF res.ret = "Ok"
          THEN /\ info' = configured_info(info, Unwrap(res.headers)[1])
               /\ headers' = res.headers
          ELSE UNCHANGED <<info, headers>>
    /\ op' = "configure"
    /\ out' = None
    /\ pkt' = None
    /\ calls' = <<>>
    /\ repeated' = (op = "configure")
    /\ UNCHANGED <<extradata, pwr, pending, sent, received, other, lacing>>

\* A mutant of send_packet_outcome: the packet is decoded first and its
\* sample count determined afterwards.
send_packet_outcome_decodes_first(hs, inf, w, p) ==
    IF ~IsSome(hs)
    THEN [ret |-> "Panic", pwr |-> w, frame |-> None, calls |-> <<>>]
    ELSE LET h == Unwrap(hs)
             dec_res == read_audio_packet(h[1], h[3], p.data, w)
             cnt == get_decoded_sample_count(h[1], h[3], p.data)
             both == <<"read_audio_packet", "get_decoded_sample_count">>
         IN
    IF cnt.err \/ dec_res.err
    THEN [ret |-> "InvalidData", pwr |-> dec_res.pwr, frame |-> None, calls |-> both]
    ELSE LET channel_count == h[1].audio_channels
             f == new_default_frame([inf EXCEPT !.samples = cnt.n * channel_count],
                                    Some(p.t))
             filled == interleave(f.buf, dec_res.samples, channel_count)
         IN
    IF filled.panic
    THEN [ret |-> "Panic", pwr |-> dec_res.pwr, frame |-> None, calls |-> both]
    ELSE [ret |-> "Ok", pwr |-> dec_res.pwr,
          frame |-> Some([f EXCEPT !.buf = filled.buf]), calls |-> both]

\* The outcome of Dec::send_packet in a given decoder state: the result, the
\* continuity state left behind, on success the frame to queue, and the
\* engine functions called.
send_packet_outcome(hs, inf, w, p) ==
    IF ~IsSome(hs)
    THEN [ret |-> "Panic", pwr |-> w, frame |-> None, calls |-> <<>>]
    ELSE LET h == Unwrap(hs)
             cnt == get_decoded_sample_count(h[1], h[3], p.data)
         IN
    IF cnt.err
    THEN [ret |-> "InvalidData", pwr |-> w, frame |-> None,
          calls |-> <<"get_decoded_sample_count">>]
    ELSE LET channel_count == h[1].audio_channels
             finfo == [inf EXCEPT !.samples = cnt.n * channel_count]
             dec_res == read_audio_packet(h[1], h[3], p.data, w)
             both == <<"get_decoded_sample_count", "read_audio_packet">>
         IN
    IF dec_res.err
    THEN [ret |-> "InvalidData", pwr |-> dec_res.pwr, frame |-> None, calls |-> both]
    ELSE LET f == new_default_frame(finfo, Some(p.t))
             filled == interleave(f.buf, dec_res.samples, channel_count)
         IN
    IF filled.panic
    THEN [ret |-> "Panic", pwr |-> dec_res.pwr, frame |-> None, calls |-> both]
    ELSE [ret |-> "Ok", pwr |-> dec_res.pwr,
          frame |-> Some([f EXCEPT !.buf = filled.buf]), calls |-> both]

\* A mutant of send_packet: the frame is queued before the decode result is
\* looked at, so a failed decode leaves an empty frame behind.
send_packet_queue_on_error(p) ==
    /\ Alive
    /\ Len(sent) < MaxPackets
    /\ LET res == send_packet_outcome(headers, info, pwr, p) IN
       /\ ret' = res.ret
       /\ pwr' = res.pwr
       /\ IF res.ret = "Ok"
          THEN /\ pending' = Append(pending, Unwrap(res.frame))
               /\ sent' = Append(sent, p.t)
          ELSE IF res.ret = "InvalidData"
          THEN /\ pending' = Append(pending, new_default_frame(info, Some(p.t)))
               /\ UNCHANGED sent
          ELSE UNCHANGED <<pending, sent>>
       /\ calls' = res.calls
    /\ op' = "send_packet"
    /\ out' = None
    /\ pkt' = Some(p)
    /\ repeated' = FALSE
    /\ UNCHANGED <<extradata, headers, info, received, other, lacing>>

\* Dec::send_packet
send_packet(p) ==
    /\ Alive
    /\ Len(sent) < MaxPackets
    /\ LET res == send_packet_outcome(headers, info, pwr, p) IN
       /\ ret' = res.ret
       /\ pwr' = res.pwr
       /\ IF res.ret = "Ok"
          THEN /\ pending' = Append(pending, Unwrap(res.frame))
               /\ sent' = Append(sent, p.t)
          ELSE UNCHANGED <<pending, sent>>
       /\ calls' = res.calls
    /\ op' = "send_packet"
    /\ out' = None
    /\ pkt' = Some(p)
    /\ repeated' = FALSE
    /\ UNCHANGED <<extradata, headers, info, received, other, lacing>>

\* A mutant of pop_front: the newest frame is taken.
pop_back(q) ==
    IF q = <<>>
    THEN [item |-> None, rest |-> q]
    ELSE [item |-> Some(q[Len(q)]), rest |-> SubSeq(q, 1, Len(q) - 1)]

\* A mutant of pop_front: the oldest frame is returned and stays queued.
peek_front(q) ==
    IF q = <<>>
    THEN [item |-> None, rest |-> q]
    ELSE [item |-> Some(Head(q)), rest |-> q]

\* VecDeque::pop_front: the oldest frame, if any, and the queue without it.
pop_front(q) ==
    IF q = <<>>
    THEN [item |-> None, rest |-> q]
    ELSE [item |-> Some(Head(q)), rest |-> Tail(q)]

\* Dec::receive_frame
receive_frame ==
    /\ Alive
    /\ LET front == pop_front(pending) IN
       /\ pending' = front.rest
       /\ out' = front.item
       /\ IF IsSome(front.item)
          THEN /\ ret' = "Ok"
               /\ received' = Append(received, Unwrap(Unwrap(front.item).t))
          ELSE /\ ret' = "MoreDataNeeded"
               /\ UNCHANGED received
    /\ op' = "receive_frame"
    /\ pkt' = None
    /\ calls' = <<>>
    /\ repeated' = FALSE
    /\ UNCHANGED <<extradata, headers, pwr, info, sent, other, lacing>>

\* A mutant of flush: the queued frames are dropped with the continuity state.
flush_drops_pending ==
    /\ Alive
    /\ pwr' = new_pwr
    /\ pending' = <<>>
    /\ op' = "flush"
    /\ ret' = "Ok"
    /\ out' = None
    /\ pkt' = None
    /\ calls' = <<>>
    /\ repeated' = FALSE
    /\ UNCHANGED <<extradata, headers, info, sent, received, other, lacing>>

\* A mutant of flush: the continuity state is kept.
flush_keeps_pwr ==
    /\ Alive
    /\ op' = "flush"
    /\ ret' = "Ok"
    /\ out' = None
    /\ pkt' = None
    /\ calls' = <<>>
    /\ repeated' = FALSE
    /\ UNCHANGED <<extradata, headers, pwr, pending, info, sent, received, other, lacing>>

\* Dec::flush
flush ==
    /\ Alive
    /\ pwr' = new_pwr
    /\ op' = "flush"
    /\ ret' = "Ok"
    /\ out' = None
    /\ pkt' = None
    /\ calls' = <<>>
    /\ repeated' = FALSE
    /\ UNCHANGED <<extradata, headers, pending, info, sent, received, other, lacing>>

\* ------------------------------------------------------------ the inputs

\* Extradata buffers a caller hands to a decoder that also decodes packets:
\* a mono and a stereo stream, a buffer with a wrong marker, and one whose
\* identification and comment headers are accepted and whose setup header
\* is refused.
MonoExtradata == <<2, 2, 1, 1, 1, 1, 1>>

StereoExtradata == <<2, 2, 1, 2, 2, 1, 1>>

StreamExtradata ==
    {MonoExtradata, StereoExtradata, <<1, 2, 1, 1, 1, 1, 1>>, <<2, 2, 1, 2, 1, 1, 0>>}

Timestamps == {1, 2}

Packets == [data : Payloads, t : Timestamps]

\* ---------------------------------------------------- the specifications

\* Any caller of one decoder.
Next ==
    \/ \E extra \in StreamExtradata : set_extradata(extra)
    \/ configure
    \/ \E p \in Packets : send_packet(p)
    \/ receive_frame
    \/ flush

Spec == Init /\ [][Next]_vars

\* A caller that sets the extradata once, as the data model documents, with
\* every buffer up to MaxExtraLen bytes, and configures.
NextConfigure ==
    \/ /\ extradata = None
       /\ \E extra \in Buffers(MaxExtraLen) : set_extradata(extra)
    \/ configure
    \/ flush

SpecConfigure == Init /\ [][NextConfigure]_vars

\* The byte values of a lacing field read on its own: small and large
\* terminating bytes and the continuation byte.
LacingBytes == {0, 1, 45, 254, 255}

\* A cursor over any buffer of at most MaxLacingLen such bytes.
InitLacing ==
    /\ extradata = new.extradata
    /\ headers = new.headers
    /\ pwr = new.pwr
    /\ pending = new.pending
    /\ info = new.info
    /\ op = "create"
    /\ ret = "Ok"
    /\ out = None
    /\ pkt = None
    /\ sent = <<>>
    /\ received = <<>>
    /\ calls = <<>>
    /\ repeated = FALSE
    /\ other = new
    /\ lacing \in {[input |-> b, reads |-> <<>>] :
                      b \in UNION {[1..k -> LacingBytes] : k \in 0..MaxLacingLen}}

\* The cursor as the reads so far have left it.
lacing_cursor ==
    IF lacing.reads = <<>> THEN lacing.input ELSE lacing.reads[Len(lacing.reads)].arr

\* One call of read_xiph_lacing on the cursor; configure makes two in a row,
\* and makes no further call after one that failed.
read_lacing ==
    /\ Len(lacing.reads) < 2
    /\ IF lacing.reads = <<>> THEN TRUE ELSE ~lacing.reads[Len(lacing.reads)].err
    /\ lacing' = [lacing EXCEPT !.reads = Append(@, read_xiph_lacing(lacing_cursor))]
    /\ UNCHANGED <<extradata, headers, pwr, pending, info, op, ret, out, pkt, sent,
                   received, calls, repeated, other>>

NextLacing == read_lacing

SpecLacing == InitLacing /\ [][NextLacing]_vars

\* ------------------------------------------------- helpers of the claims

\* The frame queued last.
LastPending == pending[Len(pending)]

\* The sum of the bytes of a buffer.
RECURSIVE SeqSum(_)
SeqSum(b) == IF b = <<>> THEN 0 ELSE b[1] + SeqSum(Tail(b))

\* The positions after the marker that hold a byte below 255: each ends a
\* lacing field.
Terminators(buf) == {k \in 2..Len(buf) : buf[k] < 255}

MinOf(S) == CHOOSE x \in S : \A y \in S : x <= y

\* The buffer starts with the marker 2 and holds two terminated lacing fields.
WellLaced(buf) ==
    /\ Len(buf) >= 1
    /\ buf[1] = 2
    /\ Cardinality(Terminators(buf)) >= 2

\* The layout the wire format gives a well-laced buffer: the two declared
\* lengths and the bytes after the lacing fields.
Layout(buf) ==
    LET t1 == MinOf(Terminators(buf))
        t2 == MinOf(Terminators(buf) \ {t1})
    IN [ident_len |-> SeqSum(SubSeq(buf, 2, t1)),
        comment_len |-> SeqSum(SubSeq(buf, t1 + 1, t2)),
        body |-> SubSeq(buf, t2 + 1, Len(buf))]

\* The declared lengths fit the bytes after the lacing fields.
LengthsFit(buf) ==
    Layout(buf).ident_len + Layout(buf).comment_len <= Len(Layout(buf).body)

IdentBytes(buf) == SubSeq(Layout(buf).body, 1, Layout(buf).ident_len)

CommentBytes(buf) ==
    SubSeq(Layout(buf).body, Layout(buf).ident_len + 1,
           Layout(buf).ident_len + Layout(buf).comment_len)

SetupBytes(buf) ==
    SubSeq(Layout(buf).body, Layout(buf).ident_len + Layout(buf).comment_len + 1,
           Len(Layout(buf).body))

\* A valid extradata: marker, consistent lacing lengths, and three headers
\* the engine accepts.
ValidExtradata(buf) ==
    /\ WellLaced(buf)
    /\ LengthsFit(buf)
    /\ ~read_header_ident(IdentBytes(buf)).err
    /\ ~read_header_comment(CommentBytes(buf)).err
    /\ ~read_header_setup(SetupBytes(buf), IdentBytes(buf)[1]).err

\* ------------------------------------------------------------ the claims

\* C1: receive_frame on an empty queue returns "more data needed" and
\* changes nothing in the decoder; a send_packet that succeeds on an empty
\* queue leaves one frame, the receive_frame that finds one frame returns it
\* and empties the queue, so the one after it returns "more data needed".
C1_ReceiveHandshake ==
    [][/\ (op' = "receive_frame" /\ pending = <<>>) =>
              (ret' = "MoreDataNeeded" /\ out' = None /\ UNCHANGED dec)
       /\ (op' = "send_packet" /\ ret' = "Ok" /\ pending = <<>>) =>
              Len(pending') = 1
       /\ (op' = "receive_frame" /\ Len(pending) = 1) =>
              (ret' = "Ok" /\ out' = Some(pending[1]) /\ pending' = <<>>)
      ]_vars

\* C1 witness: one packet was accepted, its frame was returned, and the
\* receive_frame after that reported "more data needed".
C1_Witness ==
    /\ op = "receive_frame"
    /\ ret = "MoreDataNeeded"
    /\ Len(sent) = 1
    /\ Len(received) = 1

\* C2: the timestamps of the frames returned so far are a prefix of the
\* timestamps of the packets accepted so far, the frames still queued carry
\* the rest in order, and a frame just returned carries the timestamp
\* recorded last.
C2_FifoTimestamps ==
    /\ Len(received) <= Len(sent)
    /\ \A k \in 1..Len(received) : received[k] = sent[k]
    /\ Len(sent) = Len(received) + Len(pending)
    /\ \A k \in 1..Len(pending) : pending[k].t = Some(sent[Len(received) + k])
    /\ (op = "receive_frame" /\ ret = "Ok") =>
           (IsSome(out) /\ Unwrap(out).t = Some(received[Len(received)]))

\* C2 witness: two frames with different timestamps were both returned.
C2_Witness ==
    /\ Len(received) = 2
    /\ received[1] # received[2]

C4_SendPacketQueue ==
    [][op' = "send_packet" =>
          /\ ret' \in {"Ok", "InvalidData", "Panic"}
          /\ ret' = "InvalidData" => pending' = pending
          /\ ret' = "Ok" =>
                 /\ Len(pending') = Len(pending) + 1
                 /\ SubSeq(pending', 1, Len(pending)) = pending
                 /\ pending'[Len(pending')].t = Some(Unwrap(pkt').t)
      ]_vars

\* C4 witness: a packet was refused while a frame was waiting in the queue.
C4_Witness ==
    /\ op = "send_packet"
    /\ ret = "InvalidData"
    /\ Len(pending) = 1

\* C5, as claimed: send_packet on a decoder that was never configured
\* returns; it does not panic.
C5_UnconfiguredSendReturns ==
    (op = "send_packet" /\ headers = None) => ret # "Panic"

\* C6, as claimed: on an extradata with the marker and two terminated lacing
\* fields configure returns success or "invalid data", and "invalid data"
\* when the declared lengths overrun the buffer.
C6_ConfigureNeverAborts ==
    (op = "configure" /\ IsSome(extradata) /\ WellLaced(Unwrap(extradata))) =>
        /\ ret \in {"Ok", "InvalidData"}
        /\ ~LengthsFit(Unwrap(extradata)) => ret = "InvalidData"

\* C7: configure without extradata returns "configuration incomplete" and
\* leaves the header set, stream info, continuity state and queue as they
\* were.
C7_ConfigureNoExtradata ==
    [][(op' = "configure" /\ extradata = None) =>
          (ret' = "ConfigurationIncomplete" /\ UNCHANGED <<headers, info, pwr, pending>>)
      ]_vars

\* C7 witness: configure was called with no extradata set.
C7_Witness ==
    /\ op = "configure"
    /\ extradata = None

\* C8: with no header set, configure on an extradata that is empty or does
\* not start with 2 returns "invalid data" and the header set stays None.
C8_BadMarker ==
    [][(/\ op' = "configure"
        /\ headers = None
        /\ IsSome(extradata)
        /\ (Unwrap(extradata) = <<>> \/ Unwrap(extradata)[1] # 2)) =>
          (ret' = "InvalidData" /\ headers' = None)
      ]_vars

\* C8 witness: configure refused a non-empty extradata whose lacing and
\* headers are in order but whose first byte is not 2.
C8_Witness ==
    /\ op = "configure"
    /\ ret = "InvalidData"
    /\ IsSome(extradata)
    /\ Len(Unwrap(extradata)) = 7
    /\ Unwrap(extradata)[1] = 1
    /\ ValidExtradata(<<2>> \o Tail(Unwrap(extradata)))

\* C9: configure on a valid extradata succeeds, the header set is the three
\* headers parsed from it, and the stream info has the channel count and
\* the sample rate the identification header declares.
C9_ValidConfigures ==
    (op = "configure" /\ IsSome(extradata) /\ ValidExtradata(Unwrap(extradata))) =>
        LET buf == Unwrap(extradata)
            ident == read_header_ident(IdentBytes(buf)).hdr
        IN /\ ret = "Ok"
           /\ headers = Some(<<ident,
                               read_header_comment(CommentBytes(buf)).hdr,
                               read_header_setup(SetupBytes(buf), ident.audio_channels).hdr>>)
           /\ Len(info.map) = ident.audio_channels
           /\ info.sample_rate = ident.audio_sample_rate

\* C9 witness: a valid stereo extradata was configured.
C9_Witness ==
    /\ op = "configure"
    /\ ret = "Ok"
    /\ IsSome(extradata)
    /\ ValidExtradata(Unwrap(extradata))
    /\ Len(info.map) = 2

\* C10: flush returns success, leaves a fresh continuity state, and leaves
\* the header set, stream info, extradata and queue as they were.
C10_Flush ==
    [][op' = "flush" =>
          /\ ret' = "Ok"
          /\ pwr' = new_pwr
          /\ UNCHANGED <<headers, info, extradata, pending>>
      ]_vars

\* C10 witness: flush was called with two frames queued, which are still
\* queued after it, oldest first.
C10_Witness ==
    /\ op = "flush"
    /\ pwr = new_pwr
    /\ Len(pending) = 2
    /\ pending[1].t = Some(sent[1])
    /\ pending[2].t = Some(sent[2])

\* The lacing encoding of a value: v \div 255 bytes of 255, then v % 255.
LacingEncode(v) ==
    [k \in 1..(v \div 255 + 1) |-> IF k <= v \div 255 THEN 255 ELSE v % 255]

\* C11: reading the lacing encoding of a value V returns V, and leaves the
\* cursor at the end of the field.
C11_LacingRoundTrip ==
    \A v \in 0..(255 * MaxLacingLen) :
        (lacing.input = LacingEncode(v) /\ lacing.reads # <<>>) =>
            /\ ~lacing.reads[1].err
            /\ lacing.reads[1].r = v
            /\ lacing.reads[1].arr = <<>>

\* C11 witness: the field [255, 45] was read as 300.
C11_Witness ==
    /\ lacing.input = <<255, 45>>
    /\ lacing.reads # <<>>
    /\ lacing.reads[1].r = 300

\* C12: when a lacing field of the extradata is truncated (fewer than two
\* bytes below 255 follow the marker), configure returns "invalid data": no
\* read past the end of the buffer, and no header set.
C12_TruncatedLacing ==
    (/\ op = "configure"
     /\ IsSome(extradata)
     /\ Len(Unwrap(extradata)) >= 1
     /\ Unwrap(extradata)[1] = 2
     /\ Cardinality(Terminators(Unwrap(extradata))) < 2) =>
        (ret = "InvalidData" /\ headers = None)

\* C12 witness: configure refused an extradata that ends in a run of 255
\* after a complete first field.
C12_Witness ==
    /\ op = "configure"
    /\ ret = "InvalidData"
    /\ extradata = Some(<<2, 1, 255, 255>>)

\* C13: the header set is None at first, and only a configure that succeeds
\* changes it.
C13_HeadersStable ==
    /\ headers = None
    /\ [][headers' # headers => (op' = "configure" /\ ret' = "Ok")]_vars

\* C13 witness: a configured decoder refused a packet and kept its header set.
C13_Witness ==
    /\ op = "send_packet"
    /\ ret = "InvalidData"
    /\ IsSome(headers)
    /\ headers = configure_outcome(Some(StereoExtradata)).headers

\* C14: what a send_packet called right after flush returns and queues is a
\* function of the header set, the stream info and the packet alone: it is
\* what the packet decodes to against a fresh continuity state, whatever was
\* sent before the flush.
C14_FreshAfterFlush ==
    [][(op = "flush" /\ op' = "send_packet") =>
          LET fresh == send_packet_outcome(headers, info, new_pwr, Unwrap(pkt')) IN
          /\ ret' = fresh.ret
          /\ ret' = "Ok" => pending'[Len(pending')] = Unwrap(fresh.frame)
      ]_vars

\* C14 witness: the second packet accepted was decoded against a fresh
\* continuity state (it yielded no samples), so a flush came after the first.
C14_Witness ==
    /\ op = "send_packet"
    /\ ret = "Ok"
    /\ Len(sent) = 2
    /\ Len(pending) = 2
    /\ LastPending.buf # <<>>
    /\ \A k \in 1..Len(LastPending.buf) : LastPending.buf[k] = 0

\* The state of a decoder as create() returns it.
CreatedState(d) ==
    /\ d.extradata = <<>>
    /\ d.headers = <<>>
    /\ d.pwr = <<>>
    /\ d.pending = <<>>
    /\ d.info.sample_rate = 48000
    /\ d.info.map = <<>>
    /\ d.info.block_len = <<>>

\* C15: create() returns a decoder with no extradata, no header set, a fresh
\* continuity state, an empty queue and the default stream info; a second
\* decoder stays in that state whatever is done with the first.
C15_CreateIndependent ==
    /\ op = "create" =>
           CreatedState([extradata |-> extradata, headers |-> headers, pwr |-> pwr,
                         pending |-> pending, info |-> info])
    /\ CreatedState(other)

\* C15 witness: the first decoder is configured and holds a frame while the
\* second is as created.
C15_Witness ==
    /\ IsSome(extradata)
    /\ IsSome(headers)
    /\ pending # <<>>
    /\ pwr # <<>>
    /\ CreatedState(other)

C17_CountBeforeDecode ==
    [][(/\ op' = "send_packet"
        /\ IsSome(headers)
        /\ get_decoded_sample_count(Unwrap(headers)[1], Unwrap(headers)[3],
                                    Unwrap(pkt').data).err) =>
          /\ ret' = "InvalidData"
          /\ calls' = <<"get_decoded_sample_count">>
          /\ UNCHANGED dec
      ]_vars

\* C17 witness: a malformed packet was refused by a decoder with a primed
\* continuity state and a frame in its queue.
C17_Witness ==
    /\ op = "send_packet"
    /\ ret = "InvalidData"
    /\ Unwrap(pkt).data.kind = "malformed"
    /\ pwr # <<>>
    /\ pending # <<>>

\* C18: the queue holds as many frames as packets were accepted less frames
\* returned; set_extradata, configure and flush leave it as it is; a packet
\* accepted when every earlier frame has been returned leaves exactly one.
C18_QueueLength ==
    /\ [](Len(pending) = Len(sent) - Len(received))
    /\ [][op' \in {"set_extradata", "configure", "flush"} => pending' = pending]_vars
    /\ [][(op' = "send_packet" /\ ret' = "Ok" /\ Len(sent) = Len(received)) =>
             Len(pending') = 1]_vars

\* C18 witness: a configure succeeded with a frame waiting, after another
\* frame had been returned.
C18_Witness ==
    /\ op = "configure"
    /\ ret = "Ok"
    /\ Len(pending) = 1
    /\ Len(received) = 1

\* C19: a configure that does not succeed leaves the header set and the
\* stream info as they were, and the stream info changes only in a configure
\* that succeeds and stores the header set it took the values from.
C19_FailedConfigureKeeps ==
    /\ [][(op' = "configure" /\ ret' # "Ok") => UNCHANGED <<headers, info>>]_vars
    /\ [][info' # info =>
             /\ op' = "configure"
             /\ ret' = "Ok"
             /\ IsSome(headers')
             /\ info'.sample_rate = Unwrap(headers')[1].audio_sample_rate
             /\ Len(info'.map) = Unwrap(headers')[1].audio_channels]_vars

\* C19 witness: a decoder configured for the mono stream refused an
\* extradata whose identification header declares two channels, and kept
\* its stream info.
C19_Witness ==
    /\ op = "configure"
    /\ ret = "InvalidData"
    /\ extradata = Some(<<2, 2, 1, 2, 1, 1, 0>>)
    /\ IsSome(headers)
    /\ Len(info.map) = 1

\* C20: configure leaves the stored extradata as it is, a configure that
\* follows a configure returns the same result and leaves the header set and
\* stream info as they were, and set_extradata changes neither: after it they
\* change only in a configure that succeeds.
C20_ConfigureIdempotent ==
    /\ [][op' = "configure" => extradata' = extradata]_vars
    /\ [][(op = "configure" /\ op' = "configure") =>
             (ret' = ret /\ UNCHANGED <<headers, info>>)]_vars
    /\ [][op' = "set_extradata" => UNCHANGED <<headers, info>>]_vars
    /\ [][(op = "set_extradata" /\ (headers' # headers \/ info' # info)) =>
             (op' = "configure" /\ ret' = "Ok")]_vars

\* C20 witness: configure succeeded twice in a row.
C20_Witness ==
    /\ op = "configure"
    /\ ret = "Ok"
    /\ repeated
    /\ IsSome(headers)

====
